---- MODULE Spec2Model ----
(***************************************************************************)
(* Reinforcement calculator (streamlit_app.py): the sidebar inputs, the    *)
(* per-bar calculator calc_for_bar, the loop that builds the result rows   *)
(* and the loop that builds the warnings.                                  *)
(*                                                                         *)
(* Numbers are exact decimal fixed point:                                  *)
(*   lengths in mm      : integers in units of 1/UnitsPerMM mm             *)
(*   l_inf_m            : integers in units of 1/1000 m                    *)
(*   L_wall_ft          : integers in units of 1/10 ft                     *)
(*   areas in mm^2      : integers                                         *)
(* The values the calculator rounds are kept as the decimal they are       *)
(* rounded to: 2 places -> hundredths, 1 place -> tenths, 3 -> thousandths.*)
(* round() is round-half-to-even on the exact value.                       *)
(***************************************************************************)
EXTENDS Integers, Sequences, FiniteSets, TLC

\* ------------------------------------------------------------------ bounds
\* number of widget changes explored from the default form
MaxChanges == 3
\* largest required area (mm^2) explored together with a zero bar area, where
\* the division floor makes the bar count required area * 10^9
MaxFloorArea == 1

\* ------------------------------------------------------------------- units
UnitsPerMM == 10^4
mm(whole, frac4) == whole * UnitsPerMM + frac4

\* 1 / 1e-9, the reciprocal of the division floor in n_bars
FloorInv == 10^9

\* MM_PER_FT = 304.8, in tenths of a millimetre
MM_PER_FT == 3048

Max2(a, b) == IF a >= b THEN a ELSE b
Max3(a, b, c) == Max2(Max2(a, b), c)

\* math.ceil(num / den) for num >= 0, den > 0
Ceil(num, den) == IF num % den = 0 THEN num \div den ELSE (num \div den) + 1

\* round(num / den) to the nearest integer, ties to the even one (den > 0)
RoundDiv(num, den) ==
  LET q == num \div den
      r == num % den
  IN  IF 2 * r < den THEN q
      ELSE IF 2 * r > den THEN q + 1
      ELSE IF q % 2 = 0 THEN q ELSE q + 1

\* --------------------------------------------------------- sidebar widgets
DefaultInputs ==
  [ A_s       |-> 7416,
    L_wall_ft |-> 136,
    t_wall_mm |-> mm(254, 0),
    d_c_mm    |-> mm(38, 0),
    l_inf_m   |-> 2000,
    L_s_mm    |-> mm(5700, 0),
    t_slab_mm |-> mm(300, 0) ]

Labels == << "10M", "15M", "20M", "25M", "30M" >>

DefaultBars ==
  << [label |-> "10M", dia |-> mm(11, 3000), area |-> 100, hook |-> mm(200, 0)],
     [label |-> "15M", dia |-> mm(16, 0),    area |-> 200, hook |-> mm(250, 0)],
     [label |-> "20M", dia |-> mm(19, 5000), area |-> 300, hook |-> mm(300, 0)],
     [label |-> "25M", dia |-> mm(25, 2000), area |-> 500, hook |-> mm(400, 0)],
     [label |-> "30M", dia |-> mm(29, 9000), area |-> 700, hook |-> mm(500, 0)] >>

\* values typed into the widgets (every widget has min_value = 0.0)
A_sValues       == (0 .. MaxFloorArea) \cup {300, 7416}
L_wall_ftValues == {0, 100, 136}
t_wall_mmValues == {mm(0, 0), mm(254, 0)}
d_c_mmValues    == {mm(38, 0), mm(50, 0)}
l_inf_mValues   == {0, 2000}
L_s_mmValues    == {mm(0, 0), mm(5700, 0), mm(5701, 0)}
t_slab_mmValues == {mm(30, 0), mm(45, 6100), mm(300, 0), mm(500, 0)}
diaValues(k)    == {mm(0, 0), DefaultBars[k].dia}
areaValues(k)   == {0, DefaultBars[k].area}
hookValues(k)   == {mm(0, 0), DefaultBars[k].hook}

\* ------------------------------------------------------------ calc_for_bar
\* area >= 1e-9; areas are whole mm^2 here, so that is area >= 1
AtLeastFloor(area_per_bar_mm2) == area_per_bar_mm2 >= 1

\* n_bars = math.ceil(A_s / max(area, 1e-9)) if A_s > 0 else 0
n_bars_floor(A_s_mm2, area_per_bar_mm2) ==
  IF A_s_mm2 > 0
  THEN IF AtLeastFloor(area_per_bar_mm2)
       THEN A_s_mm2 \div area_per_bar_mm2
       ELSE A_s_mm2 * FloorInv
  ELSE 0

n_bars(A_s_mm2, area_per_bar_mm2) ==
  IF A_s_mm2 > 0
  THEN IF AtLeastFloor(area_per_bar_mm2)
       THEN Ceil(A_s_mm2, area_per_bar_mm2)
       ELSE A_s_mm2 * FloorInv
  ELSE 0

\* spacing_in, exact: num/den inches with num in tenths of an inch, or NaN
spacing_in(L_wall_ft, n) ==
  IF n >= 2
  THEN [nan |-> FALSE, num |-> L_wall_ft * 12, den |-> n - 1]
  ELSE [nan |-> TRUE, num |-> 0, den |-> 1]

\* d = t_slab - d_b/2 - 40 mm
d_effective_nocover(t_slab_mm, dia_mm) == t_slab_mm - (dia_mm \div 2)

d_effective_mm(t_slab_mm, dia_mm) == t_slab_mm - (dia_mm \div 2) - mm(40, 0)

l_db_mm(dia_mm) == 16 * dia_mm

l_span_mm(L_s_mm) == L_s_mm \div 16

l_add_two(d, l_db, l_span) == Max2(l_db, l_span)

l_add_mm(d, l_db, l_span) == Max3(d, l_db, l_span)

L_req_mm(l_inf_m, t_wall_mm, hook_len_mm, d_c_mm, l_add) ==
  (l_inf_m * UnitsPerMM) + t_wall_mm + hook_len_mm - d_c_mm + l_add

L_03ln_mm(L_s_mm, t_wall_mm, hook_len_mm, d_c_mm) ==
  ((3 * L_s_mm) \div 10) + t_wall_mm + hook_len_mm - d_c_mm

\* L_mm / MM_PER_FT, exact: num/den thousandths of a foot
FtDen == (MM_PER_FT * (UnitsPerMM \div 10)) \div 1000
ToFeet(L_mm) == [num |-> L_mm, den |-> FtDen]

\* max(L_req_ft, L_03ln_ft); both quotients have the denominator FtDen
governing_ft(req_ft, code_ft) ==
  IF req_ft.num >= code_ft.num THEN req_ft ELSE code_ft

\* round(x, ndigits) of an exact quotient, in units of 10^-ndigits
Round(q) == RoundDiv(q.num, q.den)

None == << >>
Some(v) == << v >>

\* the local variables of calc_for_bar before the return statement
Locals(A_s_mm2, L_wall_ft, t_wall_mm, d_c_mm, l_inf_m, L_s_mm, t_slab_mm, bar_label, dia_mm, area_per_bar_mm2, hook_len_mm) ==
  LET n     == n_bars(A_s_mm2, area_per_bar_mm2)
      d     == d_effective_mm(t_slab_mm, dia_mm)
      ldb   == l_db_mm(dia_mm)
      lspan == l_span_mm(L_s_mm)
      ladd  == l_add_mm(d, ldb, lspan)
      req   == L_req_mm(l_inf_m, t_wall_mm, hook_len_mm, d_c_mm, ladd)
      code  == L_03ln_mm(L_s_mm, t_wall_mm, hook_len_mm, d_c_mm)
  IN  [ n_bars         |-> n,
        spacing_in     |-> spacing_in(L_wall_ft, n),
        d_effective_mm |-> d,
        l_db_mm        |-> ldb,
        l_span_mm      |-> lspan,
        l_add_mm       |-> ladd,
        L_req_mm       |-> req,
        L_03ln_mm      |-> code,
        L_req_ft       |-> ToFeet(req),
        L_03ln_ft      |-> ToFeet(code),
        governing_ft   |-> governing_ft(ToFeet(req), ToFeet(code)) ]

\* a length in mm as the quotient num/den tenths of a millimetre
Tenths(x_mm) == [num |-> x_mm, den |-> UnitsPerMM \div 10]

calc_for_bar(A_s_mm2, L_wall_ft, t_wall_mm, d_c_mm, l_inf_m, L_s_mm, t_slab_mm, bar_label, dia_mm, area_per_bar_mm2, hook_len_mm) ==
  LET v  == Locals(A_s_mm2, L_wall_ft, t_wall_mm, d_c_mm, l_inf_m, L_s_mm,
                   t_slab_mm, bar_label, dia_mm, area_per_bar_mm2, hook_len_mm)
      sp == v.spacing_in
  IN  [ Bar       |-> bar_label,
        Dia       |-> RoundDiv(dia_mm, UnitsPerMM \div 100),
        Area      |-> area_per_bar_mm2 * 10,
        Bars      |-> v.n_bars,
        Spacing   |-> IF sp.nan THEN None
                      ELSE Some(Round([num |-> sp.num * 10, den |-> sp.den])),
        d         |-> Round(Tenths(v.d_effective_mm)),
        l_db      |-> Round(Tenths(v.l_db_mm)),
        l_span    |-> Round(Tenths(v.l_span_mm)),
        l_add     |-> Round(Tenths(v.l_add_mm)),
        L_req     |-> Round(v.L_req_ft),
        L_03ln    |-> Round(v.L_03ln_ft),
        Governing |-> Round(v.governing_ft) ]

\* ------------------------------------------------------------------- state
VARIABLES
  inp,      \* the seven global sidebar inputs
  bars,     \* the packed bar data (label, dia, area, hook), five entries
  rows,     \* the list of result rows of the running pass
  warns,    \* the list of warnings of the running pass
  pc,       \* position of the script: "rows", "warns" or "done"
  i,        \* index of the running for-loop
  calls,    \* calls of calc_for_bar made by the running pass
  changes,  \* widget changes made so far
  prev      \* results of the pass before this one, and what started this one

vars == << inp, bars, rows, warns, pc, i, calls, changes, prev >>

\* the bar counts of the pass fit the model's integers
Representable(in, bs) ==
  \A k \in 1 .. Len(bs) : bs[k].area = 0 => in.A_s <= MaxFloorArea

\* rows = []
InitRows == << >>

\* warns = []
InitWarns_stale == warns
InitWarns == << >>

\* the script runs from its top to the first for-loop; the warning box of the
\* pass before stays until this pass builds its own
StartPass(cause, k) ==
  /\ rows' = InitRows
  /\ warns' = warns
  /\ pc' = "rows"
  /\ i' = 1
  /\ calls' = 0
  /\ prev' = [rows |-> rows, warns |-> warns, cause |-> cause, bar |-> k]

Init ==
  /\ inp = DefaultInputs
  /\ bars = DefaultBars
  /\ rows = << >>
  /\ warns = << >>
  /\ pc = "rows"
  /\ i = 1
  /\ calls = 0
  /\ changes = 0
  /\ prev = [rows |-> << >>, warns |-> << >>, cause |-> "first", bar |-> 0]

\* ------------------------------------------------- widget changes (rerun)
SetA_s(v) ==
  /\ pc = "done" /\ changes < MaxChanges
  /\ v # inp.A_s
  /\ Representable([inp EXCEPT !.A_s = v], bars)
  /\ inp' = [inp EXCEPT !.A_s = v]
  /\ changes' = changes + 1
  /\ StartPass("input", 0)
  /\ UNCHANGED bars

SetL_wall_ft(v) ==
  /\ pc = "done" /\ changes < MaxChanges
  /\ v # inp.L_wall_ft
  /\ inp' = [inp EXCEPT !.L_wall_ft = v]
  /\ changes' = changes + 1
  /\ StartPass("input", 0)
  /\ UNCHANGED bars

Sett_wall_mm(v) ==
  /\ pc = "done" /\ changes < MaxChanges
  /\ v # inp.t_wall_mm
  /\ inp' = [inp EXCEPT !.t_wall_mm = v]
  /\ changes' = changes + 1
  /\ StartPass("input", 0)
  /\ UNCHANGED bars

Setd_c_mm(v) ==
  /\ pc = "done" /\ changes < MaxChanges
  /\ v # inp.d_c_mm
  /\ inp' = [inp EXCEPT !.d_c_mm = v]
  /\ changes' = changes + 1
  /\ StartPass("input", 0)
  /\ UNCHANGED bars

Setl_inf_m(v) ==
  /\ pc = "done" /\ changes < MaxChanges
  /\ v # inp.l_inf_m
  /\ inp' = [inp EXCEPT !.l_inf_m = v]
  /\ changes' = changes + 1
  /\ StartPass("input", 0)
  /\ UNCHANGED bars

SetL_s_mm(v) ==
  /\ pc = "done" /\ changes < MaxChanges
  /\ v # inp.L_s_mm
  /\ inp' = [inp EXCEPT !.L_s_mm = v]
  /\ changes' = changes + 1
  /\ StartPass("input", 0)
  /\ UNCHANGED bars

Sett_slab_mm(v) ==
  /\ pc = "done" /\ changes < MaxChanges
  /\ v # inp.t_slab_mm
  /\ inp' = [inp EXCEPT !.t_slab_mm = v]
  /\ changes' = changes + 1
  /\ StartPass("input", 0)
  /\ UNCHANGED bars

SetDia(k, v) ==
  /\ pc = "done" /\ changes < MaxChanges
  /\ v # bars[k].dia
  /\ bars' = [bars EXCEPT ![k].dia = v]
  /\ changes' = changes + 1
  /\ StartPass("bar", k)
  /\ UNCHANGED inp

SetArea(k, v) ==
  /\ pc = "done" /\ changes < MaxChanges
  /\ v # bars[k].area
  /\ Representable(inp, [bars EXCEPT ![k].area = v])
  /\ bars' = [bars EXCEPT ![k].area = v]
  /\ changes' = changes + 1
  /\ StartPass("bar", k)
  /\ UNCHANGED inp

SetHook(k, v) ==
  /\ pc = "done" /\ changes < MaxChanges
  /\ v # bars[k].hook
  /\ bars' = [bars EXCEPT ![k].hook = v]
  /\ changes' = changes + 1
  /\ StartPass("bar", k)
  /\ UNCHANGED inp

\* any other interaction (download button, expander): same inputs, new pass
Rerun ==
  /\ pc = "done"
  /\ StartPass("rerun", 0)
  /\ UNCHANGED << inp, bars, changes >>

\* ---------------------------------------------------------- the two loops
\* the bar the k-th iteration of "for b in bars" passes to calc_for_bar
LoopBar_first(k) == bars[1]
LoopBar(k) == bars[k]

RowFor(k) ==
  LET b == LoopBar(k)
  IN  calc_for_bar(inp.A_s, inp.L_wall_ft, inp.t_wall_mm, inp.d_c_mm,
                   inp.l_inf_m, inp.L_s_mm, inp.t_slab_mm,
                   b.label, b.dia, b.area, b.hook)

\* for b in bars: rows.append(calc_for_bar(...))
RowStep ==
  /\ pc = "rows" /\ i <= Len(bars)
  /\ rows' = Append(rows, RowFor(i))
  /\ calls' = calls + 1
  /\ i' = i + 1
  /\ UNCHANGED << inp, bars, warns, pc, changes, prev >>

\* the table, the CSV and the summary cards are built; warns = []
RowsDone ==
  /\ pc = "rows" /\ i > Len(bars)
  /\ warns' = InitWarns
  /\ pc' = "warns"
  /\ i' = 1
  /\ UNCHANGED << inp, bars, rows, calls, changes, prev >>

\* if r["Bars (#)"] <= 1: warns.append(... spacing O.C. is undefined)
SpacingWarn_lt1(r) ==
  IF r.Bars < 1
  THEN << [Bar |-> r.Bar, kind |-> "spacing", value |-> r.Bars] >>
  ELSE << >>

SpacingWarn(r) ==
  IF r.Bars <= 1
  THEN << [Bar |-> r.Bar, kind |-> "spacing", value |-> r.Bars] >>
  ELSE << >>

\* if r["d (mm)"] < 0: warns.append(... Effective depth d is negative)
DepthWarn(r) ==
  IF r.d < 0
  THEN << [Bar |-> r.Bar, kind |-> "depth", value |-> r.d] >>
  ELSE << >>

\* for r in rows: the two checks, in this order
WarnStep ==
  /\ pc = "warns" /\ i <= Len(rows)
  /\ warns' = warns \o SpacingWarn(rows[i]) \o DepthWarn(rows[i])
  /\ i' = i + 1
  /\ UNCHANGED << inp, bars, rows, pc, calls, changes, prev >>

\* if warns: st.warning(...); the script ends
WarnsDone ==
  /\ pc = "warns" /\ i > Len(rows)
  /\ pc' = "done"
  /\ UNCHANGED << inp, bars, rows, warns, i, calls, changes, prev >>

Next ==
  \/ \E v \in A_sValues : SetA_s(v)
  \/ \E v \in L_wall_ftValues : SetL_wall_ft(v)
  \/ \E v \in t_wall_mmValues : Sett_wall_mm(v)
  \/ \E v \in d_c_mmValues : Setd_c_mm(v)
  \/ \E v \in l_inf_mValues : Setl_inf_m(v)
  \/ \E v \in L_s_mmValues : SetL_s_mm(v)
  \/ \E v \in t_slab_mmValues : Sett_slab_mm(v)
  \/ \E k \in 1 .. Len(bars) : \E v \in diaValues(k) : SetDia(k, v)
  \/ \E k \in 1 .. Len(bars) : \E v \in areaValues(k) : SetArea(k, v)
  \/ \E k \in 1 .. Len(bars) : \E v \in hookValues(k) : SetHook(k, v)
  \/ Rerun
  \/ RowStep
  \/ RowsDone
  \/ WarnStep
  \/ WarnsDone

Spec == Init /\ [][Next]_vars

TypeOK ==
  /\ pc \in {"rows", "warns", "done"}
  /\ Len(rows) <= 5
  /\ changes \in 0 .. MaxChanges

\* ================================================================ properties
\* the calculator's exact local values for bar k under the current inputs
Ex(k) ==
  Locals(inp.A_s, inp.L_wall_ft, inp.t_wall_mm, inp.d_c_mm, inp.l_inf_m,
         inp.L_s_mm, inp.t_slab_mm,
         bars[k].label, bars[k].dia, bars[k].area, bars[k].hook)

HasWarn(label, kind) ==
  \E j \in 1 .. Len(warns) : warns[j].Bar = label /\ warns[j].kind = kind

\* n is the smallest integer with n * area >= A, and 0 when A = 0
IsSmallest(n, A, area) ==
  /\ n >= 0
  /\ n * area >= A
  /\ n > 0 => (n - 1) * area < A
  /\ A = 0 => n = 0

\* the stored decimal is exactly the quotient q
IsExact(stored, q) == stored * q.den = q.num

\* C1 (as stated): for every required area and every bar area, zero included,
\* the bar count of a row is the smallest n with n * areaPerBar >= requiredArea
\* and is 0 when requiredArea = 0.
C1_Original ==
  \A k \in 1 .. Len(rows) : IsSmallest(rows[k].Bars, inp.A_s, bars[k].area)

\* C1 (amended): the bar count is the smallest n with n * areaPerBar >=
\* requiredArea (0 when requiredArea = 0) whenever areaPerBar is at least the
\* floor 1e-9; for a zero areaPerBar no such n exists when requiredArea > 0 and
\* the bar count is ceil(requiredArea / 1e-9), and it is 0 when requiredArea = 0.
C1_Amended ==
  \A k \in 1 .. Len(rows) :
    /\ AtLeastFloor(bars[k].area) =>
         IsSmallest(rows[k].Bars, inp.A_s, bars[k].area)
    /\ bars[k].area = 0 => rows[k].Bars = inp.A_s * FloorInv

C1_Witness ==
  /\ Len(rows) = 5
  /\ \E k \in 1 .. 5 : bars[k].area = 0 /\ rows[k].Bars = FloorInv
  /\ \E k \in 1 .. 5 : /\ AtLeastFloor(bars[k].area)
                       /\ inp.A_s % bars[k].area # 0
                       /\ rows[k].Bars >= 1

\* C2: the spacing of a row is None exactly when its bar count is below 2, and
\* otherwise it is exactly wallLength * 12 / (barCount - 1), nothing lost.
C2_Claim ==
  \A k \in 1 .. Len(rows) :
    /\ rows[k].Spacing = None <=> rows[k].Bars < 2
    /\ rows[k].Bars >= 2 =>
         IsExact(rows[k].Spacing[1],
                 [num |-> inp.L_wall_ft * 12 * 10, den |-> rows[k].Bars - 1])

\* C3: the negative-effective-depth warning is in the warnings for a bar exactly
\* when that bar's effective depth slabThickness - diameter/2 - 40 is below 0,
\* however slightly.
C3_Claim ==
  pc = "done" =>
    \A k \in 1 .. 5 :
      Ex(k).d_effective_mm < 0 <=> HasWarn(bars[k].label, "depth")

\* the form at its defaults except slabThickness = 30, after the pass
C4_Scenario ==
  /\ pc = "done"
  /\ inp = [DefaultInputs EXCEPT !.t_slab_mm = mm(30, 0)]
  /\ bars = DefaultBars

\* C4 (as stated): in that scenario the negative-effective-depth warning is
\* there for 30M and for no other bar.
C4_Original ==
  C4_Scenario =>
    /\ HasWarn("30M", "depth")
    /\ \A l \in {"10M", "15M", "20M", "25M"} : ~ HasWarn(l, "depth")

\* C4 (amended): in that scenario the negative-effective-depth warning is there
\* for every one of the five bars (30 - 40 is already negative).
C4_Amended ==
  C4_Scenario => \A k \in 1 .. 5 : HasWarn(Labels[k], "depth")

C4_Witness == C4_Scenario /\ Len(warns) >= 5

\* C5: every numeric field of a result row is the full-precision value the
\* calculator computed; nothing is rounded inside the calculator.
C5_Claim ==
  \A k \in 1 .. Len(rows) :
    LET r == rows[k]
        v == Ex(k)
    IN  /\ IsExact(r.d, Tenths(v.d_effective_mm))
        /\ IsExact(r.l_db, Tenths(v.l_db_mm))
        /\ IsExact(r.l_span, Tenths(v.l_span_mm))
        /\ IsExact(r.l_add, Tenths(v.l_add_mm))
        /\ r.Bars >= 2 =>
             IsExact(r.Spacing[1], [num |-> v.spacing_in.num * 10,
                                    den |-> v.spacing_in.den])
        /\ IsExact(r.L_req, v.L_req_ft)
        /\ IsExact(r.L_03ln, v.L_03ln_ft)
        /\ IsExact(r.Governing, v.governing_ft)

\* C6: with the default inputs the 20M row has 25 bars, spacing 6.8 in,
\* effective depth 250.25 mm, l_db 312.0 mm, l_span 356.25 mm, l_add 356.25 mm,
\* required length 9.423 ft, 0.3 ln length 7.303 ft, governing length 9.423 ft.
C6_Claim ==
  (inp = DefaultInputs /\ bars = DefaultBars /\ Len(rows) >= 3) =>
    LET r == rows[3]
    IN  /\ r.Bar = "20M"
        /\ r.Bars = 25
        /\ r.Spacing = Some(680)
        /\ IsExact(r.d, Tenths(mm(250, 2500)))
        /\ IsExact(r.l_db, Tenths(mm(312, 0)))
        /\ IsExact(r.l_span, Tenths(mm(356, 2500)))
        /\ IsExact(r.l_add, Tenths(mm(356, 2500)))
        /\ r.L_req = 9423
        /\ r.L_03ln = 7303
        /\ r.Governing = 9423

\* C7: in every result row the stored add-on length is the maximum of the
\* stored effective depth, l_db and l_span, and the stored governing length is
\* the maximum of the stored required length and 0.3 ln length.
C7_MaxInvariants ==
  \A k \in 1 .. Len(rows) :
    LET r == rows[k]
    IN  /\ r.l_add = Max3(r.d, r.l_db, r.l_span)
        /\ r.l_add >= r.d /\ r.l_add >= r.l_db /\ r.l_add >= r.l_span
        /\ r.Governing = Max2(r.L_req, r.L_03ln)
        /\ r.Governing >= r.L_req /\ r.Governing >= r.L_03ln

C7_Witness ==
  /\ Len(rows) = 5
  /\ \E k \in 1 .. 5 : rows[k].d > rows[k].l_db /\ rows[k].d > rows[k].l_span
  /\ \E k \in 1 .. 5 : rows[k].L_03ln > rows[k].L_req

\* C8: the spacing-undefined warning is there for a bar exactly when its bar
\* count is at most 1, which is exactly when its spacing is None; with
\* requiredArea = 0 all five rows have 0 bars, no spacing, and the warning.
C8_SpacingWarning ==
  pc = "done" =>
    /\ \A k \in 1 .. 5 :
         /\ HasWarn(Labels[k], "spacing") <=> rows[k].Bars <= 1
         /\ rows[k].Bars <= 1 <=> rows[k].Spacing = None
    /\ inp.A_s = 0 =>
         \A k \in 1 .. 5 : /\ rows[k].Bars = 0
                           /\ rows[k].Spacing = None
                           /\ HasWarn(Labels[k], "spacing")

C8_Witness ==
  /\ pc = "done"
  /\ inp.A_s = 0
  /\ \A k \in 1 .. 5 : HasWarn(Labels[k], "spacing")

\* the table and the warnings computed from nothing but the current inputs
FromScratchRows ==
  [k \in 1 .. 5 |->
     calc_for_bar(inp.A_s, inp.L_wall_ft, inp.t_wall_mm, inp.d_c_mm,
                  inp.l_inf_m, inp.L_s_mm, inp.t_slab_mm,
                  bars[k].label, bars[k].dia, bars[k].area, bars[k].hook)]

RECURSIVE WarnsUpTo(_, _)
WarnsUpTo(rs, n) ==
  IF n = 0 THEN << >>
  ELSE WarnsUpTo(rs, n - 1) \o SpacingWarn(rs[n]) \o DepthWarn(rs[n])

\* C9: after any sequence of input changes, each followed by a pass, the table
\* and the warnings are those of a from-scratch computation on the current
\* inputs, and a pass on unchanged inputs gives the same rows and warnings.
C9_FreshEachPass ==
  pc = "done" =>
    /\ rows = FromScratchRows
    /\ warns = WarnsUpTo(FromScratchRows, 5)
    /\ prev.cause = "rerun" => rows = prev.rows /\ warns = prev.warns

C9_Witness ==
  /\ pc = "done"
  /\ prev.cause = "rerun"
  /\ changes >= 1
  /\ Len(warns) >= 2

LabelIndex(l) == CHOOSE k \in 1 .. 5 : Labels[k] = l

\* C10: a pass calls the calculator once per bar and gives five rows in the
\* order 10M, 15M, 20M, 25M, 30M, each from the global inputs and its own bar
\* only (a change of another bar leaves the row as it was); the warnings are
\* in row order.
C10_TableAssembly ==
  pc = "done" =>
    /\ calls = 5
    /\ Len(rows) = 5
    /\ \A k \in 1 .. 5 : rows[k].Bar = Labels[k] /\ rows[k] = FromScratchRows[k]
    /\ (prev.cause = "bar" /\ Len(prev.rows) = 5) =>
         \A k \in 1 .. 5 : k # prev.bar => rows[k] = prev.rows[k]
    /\ \A a, b \in 1 .. Len(warns) :
         a < b => LabelIndex(warns[a].Bar) <= LabelIndex(warns[b].Bar)

C10_Witness ==
  /\ pc = "done"
  /\ prev.cause = "bar"
  /\ Len(prev.rows) = 5
  /\ rows[prev.bar] # prev.rows[prev.bar]
  /\ Len(warns) >= 2

====
